---------------------------- MODULE Spec2Model ----------------------------
(***************************************************************************)
(* Model of src/lambda/index.py: the simplechat Lambda handler that relays *)
(* a chat message to a self-hosted text-generation endpoint.               *)
(*                                                                         *)
(* Text is modelled character by character: a Python str is a sequence of  *)
(* one-character strings.  A character outside ASCII is written as one     *)
(* token naming its code point ("U4F1A").  Python objects decoded from     *)
(* JSON are tagged records (PStr, PNum, PBool, PNone, PList, PDict).       *)
(***************************************************************************)
EXTENDS Integers, Sequences, FiniteSets, TLC

VARIABLES
    pc,                    \* position of the invocation in lambda_handler
    payload,               \* what the client sent (a Python/JSON value)
    style,                 \* how the platform wrapped it into the event
    event,                 \* the event argument of lambda_handler
    user_message,          \* local of lambda_handler
    conversation_history,  \* local of lambda_handler
    prompt,                \* local of lambda_handler
    assistant_response,    \* local of lambda_handler
    outcome,               \* what the generation endpoint did with the call
    sent,                  \* prompts POSTed to the endpoint, in order
    response,              \* the value lambda_handler returned
    raised,                \* the exception that escaped lambda_handler
    log                    \* records written through LOGGER

vars == <<pc, payload, style, event, user_message, conversation_history,
          prompt, assistant_response, outcome, sent, response, raised, log>>

----------------------------------------------------------------------------
(* Bounds of the model.                                                    *)

MaxHist == 2

----------------------------------------------------------------------------
(* Python values.                                                          *)

PStr(s) == [k |-> "str", s |-> s]
PNum(n) == [k |-> "num", n |-> n]
PBool(b) == [k |-> "bool", b |-> b]
PNone == [k |-> "null"]
PList(xs) == [k |-> "list", xs |-> xs]
PDict(kv) == [k |-> "dict", kv |-> kv]

IsStr(v) == v.k = "str"
IsList(v) == v.k = "list"
IsDict(v) == v.k = "dict"

\* key in d, for a dict d
HasKey(d, key) == \E i \in 1..Len(d.kv) : d.kv[i][1] = key

\* d[key], for a dict d that has the key
Get(d, key) == d.kv[CHOOSE i \in 1..Len(d.kv) : d.kv[i][1] = key][2]

\* d[key] = v on the pair list of a dict: an existing key keeps its place
Put(kv, key, v) ==
    IF \E i \in 1..Len(kv) : kv[i][1] = key
    THEN [i \in 1..Len(kv) |-> IF kv[i][1] = key THEN <<key, v>> ELSE kv[i]]
    ELSE Append(kv, <<key, v>>)

\* an exception object: its class and str(e)
Exc(type, msg) == [type |-> type, msg |-> msg]
NoException == [type |-> "none"]
Ok(v) == [ok |-> TRUE, v |-> v]
Raise(type, msg) == [ok |-> FALSE, exc |-> Exc(type, msg)]

----------------------------------------------------------------------------
(* Text helpers.                                                           *)

Digits == <<"0", "1", "2", "3", "4", "5", "6", "7", "8", "9">>
DigitChars == {Digits[i] : i \in 1..10}
DigitVal(c) == (CHOOSE i \in 1..10 : Digits[i] = c) - 1

RECURSIVE DecNat(_)
DecNat(n) == IF n < 10 THEN <<Digits[n + 1]>>
             ELSE Append(DecNat(n \div 10), Digits[(n % 10) + 1])

\* str(n) of an int
Dec(n) == IF n < 0 THEN <<"-">> \o DecNat(-n) ELSE DecNat(n)

\* sub occurs in s as a contiguous run of characters
Contains(s, sub) ==
    \E i \in 0..(Len(s) - Len(sub)) : SubSeq(s, i + 1, i + Len(sub)) = sub

\* sep.join(lines)
RECURSIVE Join(_, _)
Join(lines, sep) ==
    IF lines = <<>> THEN <<>>
    ELSE IF Len(lines) = 1 THEN lines[1]
    ELSE lines[1] \o sep \o Join(Tail(lines), sep)

\* format(v, "") as an f-string field applies it, for the scalar values
PyFormat(v) ==
    CASE v.k = "str" -> v.s
      [] v.k = "num" -> Dec(v.n)
      [] v.k = "bool" -> IF v.b THEN <<"T", "r", "u", "e">>
                         ELSE <<"F", "a", "l", "s", "e">>
      [] v.k = "null" -> <<"N", "o", "n", "e">>

----------------------------------------------------------------------------
(* json.dumps(obj, ensure_ascii=False): default separators ", " and ": ". *)

JsonEscapeChar(c) ==
    CASE c = "\"" -> <<"\\", "\"">>
      [] c = "\\" -> <<"\\", "\\">>
      [] c = "\n" -> <<"\\", "n">>
      [] c = "\t" -> <<"\\", "t">>
      [] c = "\r" -> <<"\\", "r">>
      [] OTHER -> <<c>>

RECURSIVE JsonEscape(_)
JsonEscape(s) == IF s = <<>> THEN <<>>
                 ELSE JsonEscapeChar(Head(s)) \o JsonEscape(Tail(s))

JsonQuote(s) == <<"\"">> \o JsonEscape(s) \o <<"\"">>

RECURSIVE JsonDumps(_)
RECURSIVE JsonDumpsItems(_)
RECURSIVE JsonDumpsPairs(_)
JsonDumps(v) ==
    CASE v.k = "str" -> JsonQuote(v.s)
      [] v.k = "num" -> Dec(v.n)
      [] v.k = "bool" -> IF v.b THEN <<"t", "r", "u", "e">>
                         ELSE <<"f", "a", "l", "s", "e">>
      [] v.k = "null" -> <<"n", "u", "l", "l">>
      [] v.k = "list" -> <<"[">> \o JsonDumpsItems(v.xs) \o <<"]">>
      [] v.k = "dict" -> <<"{">> \o JsonDumpsPairs(v.kv) \o <<"}">>
JsonDumpsItems(xs) ==
    IF xs = <<>> THEN <<>>
    ELSE JsonDumps(Head(xs))
         \o (IF Len(xs) > 1 THEN <<",", " ">> ELSE <<>>)
         \o JsonDumpsItems(Tail(xs))
JsonDumpsPairs(kv) ==
    IF kv = <<>> THEN <<>>
    ELSE JsonQuote(Head(kv)[1]) \o <<":", " ">> \o JsonDumps(Head(kv)[2])
         \o (IF Len(kv) > 1 THEN <<",", " ">> ELSE <<>>)
         \o JsonDumpsPairs(Tail(kv))

----------------------------------------------------------------------------
(* json.loads(text): a recursive-descent parse of the text.  A parse step  *)
(* returns [ok, v, i]: the value and the index of the next unread          *)
(* character, or ok = FALSE where json raises JSONDecodeError (a           *)
(* ValueError).  Floats, \b and \uXXXX escapes are outside the texts the   *)
(* model feeds it and are rejected.                                        *)

JsonWs == {" ", "\n", "\t", "\r"}
JsonFail == [ok |-> FALSE]
JsonAt(t, i) == IF i <= Len(t) THEN t[i] ELSE "EOF"

RECURSIVE JsonSkipWs(_, _)
JsonSkipWs(t, i) == IF i <= Len(t) /\ t[i] \in JsonWs THEN JsonSkipWs(t, i + 1) ELSE i

JsonUnescape(c) ==
    CASE c = "\"" -> "\""
      [] c = "\\" -> "\\"
      [] c = "/" -> "/"
      [] c = "n" -> "\n"
      [] c = "t" -> "\t"
      [] c = "r" -> "\r"
      [] OTHER -> "EOF"

\* the characters of a string literal from index i (just after the opening
\* quote); acc is what was read so far
RECURSIVE JsonParseChars(_, _, _)
JsonParseChars(t, i, acc) ==
    IF i > Len(t) THEN JsonFail
    ELSE IF t[i] = "\"" THEN [ok |-> TRUE, v |-> acc, i |-> i + 1]
    ELSE IF t[i] = "\\" THEN
        IF JsonUnescape(JsonAt(t, i + 1)) = "EOF" THEN JsonFail
        ELSE JsonParseChars(t, i + 2, Append(acc, JsonUnescape(t[i + 1])))
    ELSE IF t[i] \in {"\n", "\t", "\r"} THEN JsonFail    \* strict: control character
    ELSE JsonParseChars(t, i + 1, Append(acc, t[i]))

RECURSIVE JsonParseDigits(_, _, _)
JsonParseDigits(t, i, acc) ==
    IF i <= Len(t) /\ t[i] \in DigitChars
    THEN JsonParseDigits(t, i + 1, acc * 10 + DigitVal(t[i]))
    ELSE [ok |-> TRUE, v |-> acc, i |-> i]

JsonParseNumber(t, i) ==
    LET neg == JsonAt(t, i) = "-"
        j == IF neg THEN i + 1 ELSE i
    IN  IF JsonAt(t, j) \notin DigitChars THEN JsonFail
        ELSE IF JsonAt(t, j) = "0" /\ JsonAt(t, j + 1) \in DigitChars THEN JsonFail
        ELSE LET r == JsonParseDigits(t, j, 0)
             IN  IF JsonAt(t, r.i) \in {".", "e", "E"} THEN JsonFail
                 ELSE [ok |-> TRUE, v |-> PNum(IF neg THEN -r.v ELSE r.v), i |-> r.i]

JsonLiteral(t, i, word, v) ==
    IF i + Len(word) - 1 <= Len(t) /\ SubSeq(t, i, i + Len(word) - 1) = word
    THEN [ok |-> TRUE, v |-> v, i |-> i + Len(word)]
    ELSE JsonFail

RECURSIVE JsonParseValue(_, _)
RECURSIVE JsonParseItems(_, _, _)
RECURSIVE JsonParsePairs(_, _, _)
JsonParseValue(t, i0) ==
    LET i == JsonSkipWs(t, i0)
        c == JsonAt(t, i)
    IN  CASE c = "\"" ->
               LET r == JsonParseChars(t, i + 1, <<>>)
               IN  IF r.ok THEN [ok |-> TRUE, v |-> PStr(r.v), i |-> r.i] ELSE JsonFail
          [] c = "{" ->
               IF JsonAt(t, JsonSkipWs(t, i + 1)) = "}"
               THEN [ok |-> TRUE, v |-> PDict(<<>>), i |-> JsonSkipWs(t, i + 1) + 1]
               ELSE JsonParsePairs(t, i + 1, <<>>)
          [] c = "[" ->
               IF JsonAt(t, JsonSkipWs(t, i + 1)) = "]"
               THEN [ok |-> TRUE, v |-> PList(<<>>), i |-> JsonSkipWs(t, i + 1) + 1]
               ELSE JsonParseItems(t, i + 1, <<>>)
          [] c = "t" -> JsonLiteral(t, i, <<"t", "r", "u", "e">>, PBool(TRUE))
          [] c = "f" -> JsonLiteral(t, i, <<"f", "a", "l", "s", "e">>, PBool(FALSE))
          [] c = "n" -> JsonLiteral(t, i, <<"n", "u", "l", "l">>, PNone)
          [] c = "-" \/ c \in DigitChars -> JsonParseNumber(t, i)
          [] OTHER -> JsonFail
\* the items of an array from index i, up to and including the closing bracket
JsonParseItems(t, i, acc) ==
    LET r == JsonParseValue(t, i)
    IN  IF ~r.ok THEN JsonFail
        ELSE LET j == JsonSkipWs(t, r.i)
             IN  IF JsonAt(t, j) = "," THEN JsonParseItems(t, j + 1, Append(acc, r.v))
                 ELSE IF JsonAt(t, j) = "]"
                 THEN [ok |-> TRUE, v |-> PList(Append(acc, r.v)), i |-> j + 1]
                 ELSE JsonFail
\* the members of an object from index i, up to and including the closing brace
JsonParsePairs(t, i, acc) ==
    LET j == JsonSkipWs(t, i)
    IN  IF JsonAt(t, j) # "\"" THEN JsonFail
        ELSE LET key == JsonParseChars(t, j + 1, <<>>)
             IN  IF ~key.ok THEN JsonFail
                 ELSE LET c == JsonSkipWs(t, key.i)
                      IN  IF JsonAt(t, c) # ":" THEN JsonFail
                          ELSE LET r == JsonParseValue(t, c + 1)
                               IN  IF ~r.ok THEN JsonFail
                                   ELSE LET e == JsonSkipWs(t, r.i)
                                            kv == Put(acc, key.v, r.v)
                                        IN  IF JsonAt(t, e) = ","
                                            THEN JsonParsePairs(t, e + 1, kv)
                                            ELSE IF JsonAt(t, e) = "}"
                                            THEN [ok |-> TRUE, v |-> PDict(kv), i |-> e + 1]
                                            ELSE JsonFail

\* str(e) of the JSONDecodeError for a text that is no JSON from its first
\* character on (the malformed texts of the model all are)
JsonDecodeErrorMsg ==
    <<"E", "x", "p", "e", "c", "t", "i", "n", "g", " ", "v", "a", "l", "u", "e",
      ":", " ", "l", "i", "n", "e", " ", "1", " ", "c", "o", "l", "u", "m", "n",
      " ", "1", " ", "(", "c", "h", "a", "r", " ", "0", ")">>

JsonLoads(t) ==
    LET r == JsonParseValue(t, 1)
    IN  IF r.ok /\ JsonSkipWs(t, r.i) = Len(t) + 1 THEN Ok(r.v)
        ELSE Raise("ValueError", JsonDecodeErrorMsg)

----------------------------------------------------------------------------
(* Python operations the handler applies to decoded values.               *)

TypeName(v) ==
    CASE v.k = "num" -> <<"i", "n", "t">>
      [] v.k = "bool" -> <<"b", "o", "o", "l">>
      [] v.k = "null" -> <<"N", "o", "n", "e", "T", "y", "p", "e">>
      [] v.k = "str" -> <<"s", "t", "r">>
      [] v.k = "list" -> <<"l", "i", "s", "t">>
      [] v.k = "dict" -> <<"d", "i", "c", "t">>

\* obj[key] for a str key: KeyError on a dict without it, TypeError on
\* anything that is no dict (messages as CPython 3.11 words them)
Subscript(obj, key) ==
    CASE obj.k = "dict" ->
            IF HasKey(obj, key) THEN Ok(Get(obj, key))
            ELSE Raise("KeyError", <<"'">> \o key \o <<"'">>)
      [] obj.k = "list" ->
            Raise("TypeError",
                  <<"l", "i", "s", "t", " ", "i", "n", "d", "i", "c", "e", "s", " ",
                    "m", "u", "s", "t", " ", "b", "e", " ", "i", "n", "t", "e", "g",
                    "e", "r", "s", " ", "o", "r", " ", "s", "l", "i", "c", "e", "s",
                    ",", " ", "n", "o", "t", " ", "s", "t", "r">>)
      [] obj.k = "str" ->
            Raise("TypeError",
                  <<"s", "t", "r", "i", "n", "g", " ", "i", "n", "d", "i", "c", "e",
                    "s", " ", "m", "u", "s", "t", " ", "b", "e", " ", "i", "n", "t",
                    "e", "g", "e", "r", "s", ",", " ", "n", "o", "t", " ", "'", "s",
                    "t", "r", "'">>)
      [] OTHER ->
            Raise("TypeError",
                  <<"'">> \o TypeName(obj)
                  \o <<"'", " ", "o", "b", "j", "e", "c", "t", " ", "i", "s", " ",
                       "n", "o", "t", " ", "s", "u", "b", "s", "c", "r", "i", "p",
                       "t", "a", "b", "l", "e">>)

\* the items "for m in obj" visits: the elements of a list, the characters
\* of a str, the keys of a dict; TypeError on anything else
Iterate(obj) ==
    CASE obj.k = "list" -> Ok(obj.xs)
      [] obj.k = "str" -> Ok([i \in 1..Len(obj.s) |-> PStr(<<obj.s[i]>>)])
      [] obj.k = "dict" -> Ok([i \in 1..Len(obj.kv) |-> PStr(obj.kv[i][1])])
      [] OTHER ->
            Raise("TypeError",
                  <<"'">> \o TypeName(obj)
                  \o <<"'", " ", "o", "b", "j", "e", "c", "t", " ", "i", "s", " ",
                       "n", "o", "t", " ", "i", "t", "e", "r", "a", "b", "l", "e">>)

\* obj + [x, y, ...]: defined on a list only
ConcatList(obj, xs) ==
    CASE obj.k = "list" -> Ok(PList(obj.xs \o xs))
      [] obj.k = "str" ->
            Raise("TypeError",
                  <<"c", "a", "n", " ", "o", "n", "l", "y", " ", "c", "o", "n", "c",
                    "a", "t", "e", "n", "a", "t", "e", " ", "s", "t", "r", " ", "(",
                    "n", "o", "t", " ", "\"", "l", "i", "s", "t", "\"", ")", " ",
                    "t", "o", " ", "s", "t", "r">>)
      [] OTHER ->
            Raise("TypeError",
                  <<"u", "n", "s", "u", "p", "p", "o", "r", "t", "e", "d", " ", "o",
                    "p", "e", "r", "a", "n", "d", " ", "t", "y", "p", "e", "(", "s",
                    ")", " ", "f", "o", "r", " ", "+", ":", " ", "'">>
                  \o TypeName(obj)
                  \o <<"'", " ", "a", "n", "d", " ", "'", "l", "i", "s", "t", "'">>)

----------------------------------------------------------------------------
(* String literals of the handler.                                         *)

KeyBody == <<"b", "o", "d", "y">>
KeyMessage == <<"m", "e", "s", "s", "a", "g", "e">>
KeyHistory == <<"c", "o", "n", "v", "e", "r", "s", "a", "t", "i", "o", "n", "H",
                "i", "s", "t", "o", "r", "y">>
KeyRole == <<"r", "o", "l", "e">>
KeyContent == <<"c", "o", "n", "t", "e", "n", "t">>
KeyGeneratedText == <<"g", "e", "n", "e", "r", "a", "t", "e", "d", "_", "t", "e",
                      "x", "t">>
KeyAssistantResponse == <<"a", "s", "s", "i", "s", "t", "a", "n", "t", "R", "e",
                          "s", "p", "o", "n", "s", "e">>
RoleUser == <<"u", "s", "e", "r">>
RoleAssistant == <<"a", "s", "s", "i", "s", "t", "a", "n", "t">>

\* "## " followed by the four characters U+4F1A U+8A71 U+5C65 U+6B74
PromptHeader == <<"#", "#", " ", "U4F1A", "U8A71", "U5C65", "U6B74">>
BadRequestBody == <<"b", "a", "d", " ", "r", "e", "q", "u", "e", "s", "t">>
BackendErrorPrefix == <<"L", "L", "M", " ", "b", "a", "c", "k", "e", "n", "d", " ",
                        "e", "r", "r", "o", "r", ":", " ">>

----------------------------------------------------------------------------
(* _build_prompt(messages, latest_user_msg)                                *)

\* f"{m['role']}: {m['content']}": role is subscripted first
HistoryLine(m) ==
    LET role == Subscript(m, KeyRole)
        content == Subscript(m, KeyContent)
    IN  IF ~role.ok THEN role
        ELSE IF ~content.ok THEN content
        ELSE Ok(PyFormat(role.v) \o <<":", " ">> \o PyFormat(content.v))

\* the for loop: the lines appended for the items, or the first exception
RECURSIVE HistoryLines(_, _)
HistoryLines(items, acc) ==
    IF items = <<>> THEN Ok(acc)
    ELSE LET line == HistoryLine(Head(items))
         IN  IF ~line.ok THEN line
             ELSE HistoryLines(Tail(items), Append(acc, line.v))

\* a variant that ends the prompt with a newline after "assistant: "
_build_prompt_TrailingNewline(messages, latest_user_msg) ==
    LET items == Iterate(messages)
    IN  IF ~items.ok THEN items
        ELSE LET lines == HistoryLines(items.v, <<PromptHeader>>)
             IN  IF ~lines.ok THEN lines
                 ELSE Ok(Join(lines.v \o << <<"u", "s", "e", "r", ":", " ">>
                                              \o PyFormat(latest_user_msg),
                                            <<"a", "s", "s", "i", "s", "t", "a", "n",
                                              "t", ":", " ">>,
                                            <<>> >>,
                              <<"\n">>))

_build_prompt(messages, latest_user_msg) ==
    LET items == Iterate(messages)
    IN  IF ~items.ok THEN items
        ELSE LET lines == HistoryLines(items.v, <<PromptHeader>>)
             IN  IF ~lines.ok THEN lines
                 ELSE Ok(Join(lines.v \o << <<"u", "s", "e", "r", ":", " ">>
                                              \o PyFormat(latest_user_msg),
                                            <<"a", "s", "s", "i", "s", "t", "a", "n",
                                              "t", ":", " ">> >>,
                              <<"\n">>))

----------------------------------------------------------------------------
(* _call_llm(prompt), given what the endpoint does with the POST:          *)
(*   [kind |-> "ok", text, json]            a 2xx answer with that body    *)
(*   [kind |-> "http", code, reason, detail] urlopen raises HTTPError      *)
(*   [kind |-> "transport", exc]            urlopen raises URLError or a   *)
(*                                          socket timeout                 *)

\* str(HTTPError): "HTTP Error <code>: <reason>"
HTTPErrorStr(code, reason) ==
    <<"H", "T", "T", "P", " ", "E", "r", "r", "o", "r", " ">> \o Dec(code)
    \o <<":", " ">> \o reason

\* a variant that reads the answer with .get("generated_text"): an object
\* without the key yields None instead of KeyError
_call_llm_GetDefault(p, o) ==
    CASE o.kind = "ok" ->
            LET rsp_json == JsonLoads(o.text)
            IN  IF ~rsp_json.ok THEN rsp_json
                ELSE IF IsDict(rsp_json.v) /\ ~HasKey(rsp_json.v, KeyGeneratedText)
                THEN Ok(PNone)
                ELSE Subscript(rsp_json.v, KeyGeneratedText)
      [] o.kind = "http" -> Raise("HTTPError", HTTPErrorStr(o.code, o.reason))
      [] o.kind = "transport" -> [ok |-> FALSE, exc |-> o.exc]

_call_llm(p, o) ==
    CASE o.kind = "ok" ->
            LET rsp_json == JsonLoads(o.text)
            IN  IF ~rsp_json.ok THEN rsp_json
                ELSE Subscript(rsp_json.v, KeyGeneratedText)
      [] o.kind = "http" -> Raise("HTTPError", HTTPErrorStr(o.code, o.reason))
      [] o.kind = "transport" -> [ok |-> FALSE, exc |-> o.exc]

\* what _call_llm writes through LOGGER before it re-raises
CallLog(o, r) ==
    IF r.ok THEN <<>>
    ELSE IF o.kind = "http"
    THEN <<[level |-> "ERROR", what |-> "LLM_API HTTPError",
            code |-> o.code, err_detail |-> o.detail]>>
    ELSE <<[level |-> "ERROR", what |-> "Unexpected error calling LLM_API",
            exc |-> r.exc]>>

----------------------------------------------------------------------------
(* lambda_handler                                                          *)

NoResponse == [pending |-> TRUE]

\* a variant that reads the message with .get("message"): a payload without
\* it is accepted with None for the message
ParseRequest_GetMessage(ev) ==
    LET body0 == IF HasKey(ev, KeyBody) THEN Get(ev, KeyBody) ELSE ev
        body == IF IsStr(body0) THEN JsonLoads(body0.s) ELSE Ok(body0)
    IN  IF ~body.ok THEN body
        ELSE LET msg == IF IsDict(body.v) /\ ~HasKey(body.v, KeyMessage)
                        THEN Ok(PNone)
                        ELSE Subscript(body.v, KeyMessage)
             IN  IF ~msg.ok THEN msg
                 ELSE Ok([user_message |-> msg.v,
                          conversation_history |->
                              IF HasKey(body.v, KeyHistory)
                              THEN Get(body.v, KeyHistory)
                              ELSE PList(<<>>)])

\* a variant without the json.loads of a str body
ParseRequest_NoDecode(ev) ==
    LET body0 == IF HasKey(ev, KeyBody) THEN Get(ev, KeyBody) ELSE ev
        msg == Subscript(body0, KeyMessage)
    IN  IF ~msg.ok THEN msg
        ELSE Ok([user_message |-> msg.v,
                 conversation_history |->
                     IF HasKey(body0, KeyHistory)
                     THEN Get(body0, KeyHistory)
                     ELSE PList(<<>>)])

\* step 1, the try block: the message and the history, or the exception
ParseRequest(ev) ==
    LET body0 == IF HasKey(ev, KeyBody) THEN Get(ev, KeyBody) ELSE ev
        body == IF IsStr(body0) THEN JsonLoads(body0.s) ELSE Ok(body0)
    IN  IF ~body.ok THEN body
        ELSE LET msg == Subscript(body.v, KeyMessage)
             IN  IF ~msg.ok THEN msg
                 ELSE Ok([user_message |-> msg.v,
                          conversation_history |->
                              IF HasKey(body.v, KeyHistory)
                              THEN Get(body.v, KeyHistory)
                              ELSE PList(<<>>)])

\* a variant that appends the assistant entry only
NewHistory_OmitsUser(history, message, reply) ==
    ConcatList(history,
               << PDict(<< <<KeyRole, PStr(RoleAssistant)>>, <<KeyContent, reply>> >>) >>)

\* step 4: conversation_history + [user entry, assistant entry]
NewHistory(history, message, reply) ==
    ConcatList(history,
               << PDict(<< <<KeyRole, PStr(RoleUser)>>, <<KeyContent, message>> >>),
                  PDict(<< <<KeyRole, PStr(RoleAssistant)>>, <<KeyContent, reply>> >>) >>)

BadRequestResponse == [statusCode |-> 400, body |-> BadRequestBody]

\* a variant that drops str(e) from the body
UpstreamErrorResponse_NoDetail(exc) ==
    [statusCode |-> 502, body |-> BackendErrorPrefix]

UpstreamErrorResponse(exc) ==
    [statusCode |-> 502, body |-> BackendErrorPrefix \o exc.msg]

\* a variant that returns the history only
SuccessResponse_NoReply(reply, new_history) ==
    [statusCode |-> 200,
     body |-> JsonDumps(PDict(<< <<KeyHistory, new_history>> >>))]

SuccessResponse(reply, new_history) ==
    [statusCode |-> 200,
     body |-> JsonDumps(PDict(<< <<KeyAssistantResponse, reply>>,
                                 <<KeyHistory, new_history>> >>))]

----------------------------------------------------------------------------
(* Inputs: payloads, invocation styles and endpoint behaviours.            *)

MsgTexts == { <<"H", "i">>, <<"\"", "\\", "\n">>, <<"U3042">> }

Entry(role, content) == PDict(<< <<KeyRole, role>>, <<KeyContent, content>> >>)

GoodEntries ==
    { Entry(PStr(RoleUser), PStr(<<"H", "i">>)),
      PDict(<< <<KeyContent, PStr(<<"a", "\"", "\n", "b">>)>>,
               <<KeyRole, PStr(RoleAssistant)>> >>) }

RECURSIVE SeqsUpTo(_, _)
SeqsUpTo(S, n) ==
    IF n = 0 THEN {<<>>}
    ELSE LET shorter == SeqsUpTo(S, n - 1)
         IN  shorter \cup {Append(s, x) : s \in shorter, x \in S}

GoodHistories == {PList(xs) : xs \in SeqsUpTo(GoodEntries, MaxHist)}

\* conversationHistory values of a wrong type
BadHistories ==
    { PNum(3), PNone, PStr(<<>>), PStr(<<"a", "b">>), PDict(<<>>),
      PDict(<< <<KeyRole, PStr(RoleUser)>> >>),
      PList(<< PDict(<< <<KeyRole, PStr(RoleUser)>> >>) >>),
      PList(<< PDict(<< <<KeyContent, PStr(<<"H", "i">>)>> >>) >>),
      PList(<< PStr(<<"x">>) >>),
      PList(<< Entry(PStr(RoleUser), PStr(<<"H", "i">>)), PNum(1) >>),
      PList(<< Entry(PNum(1), PNone) >>) }

Absent == [k |-> "absent"]

MessageValues == {PStr(t) : t \in MsgTexts} \cup {PNum(7), PNone, Absent}
HistoryValues == GoodHistories \cup BadHistories \cup {Absent}

MakePayload(m, h) ==
    PDict((IF m = Absent THEN <<>> ELSE << <<KeyMessage, m>> >>)
          \o (IF h = Absent THEN <<>> ELSE << <<KeyHistory, h>> >>))

DictPayloads == {MakePayload(m, h) : m \in MessageValues, h \in HistoryValues}

\* bodies that are no JSON object, or no JSON at all
RawBodies ==
    { PNone, PStr(<<>>), PStr(<<"o", "o", "p", "s">>), PStr(<<"[", "]">>),
      PStr(<<"{", "\"", "m", "e", "s", "s", "a", "g", "e", "\"", ":">>) }
NonObjectPayloads == { PList(<<>>), PNum(5), PStr(<<"H", "i">>) }

Styles == {"direct", "encoded", "nested"}

\* the event the platform hands to lambda_handler
MakeEvent(st, p) ==
    CASE st = "direct" -> p
      [] st = "encoded" ->
            PDict(<< <<<<"h", "t", "t", "p", "M", "e", "t", "h", "o", "d">>,
                       PStr(<<"P", "O", "S", "T">>)>>,
                     <<KeyBody, PStr(JsonDumps(p))>> >>)
      [] st = "nested" -> PDict(<< <<KeyBody, p>> >>)

Invocations ==
    {<<st, p>> : st \in Styles, p \in DictPayloads}
    \cup {<<"nested", p>> : p \in RawBodies}
    \cup {<<"encoded", p>> : p \in NonObjectPayloads}

GeneratedValues == { PStr(<<"H", "e", "l", "l", "o", "!">>),
                     PStr(<<"\"", "\n", "U3042">>), PStr(<<>>) }

\* what a 2xx answer carries: the value the endpoint encoded (json) and the
\* body text on the wire; Absent where the body was never JSON
AnswerValues ==
    {PDict(<< <<KeyGeneratedText, g>> >>) : g \in GeneratedValues}
    \cup { PDict(<< <<<<"e", "r", "r", "o", "r">>, PStr(<<"x">>)>> >>),
           PList(<< PStr(<<"H", "i">>) >>) }

Answers ==
    {[kind |-> "ok", json |-> v, text |-> JsonDumps(v)] : v \in AnswerValues}
    \cup { [kind |-> "ok", json |-> Absent,
            text |-> <<"<", "h", "t", "m", "l", ">">>] }

HttpErrors ==
    { [kind |-> "http", code |-> 500,
       reason |-> <<"I", "n", "t", "e", "r", "n", "a", "l", " ", "S", "e", "r", "v",
                    "e", "r", " ", "E", "r", "r", "o", "r">>,
       detail |-> <<"C", "U", "D", "A", " ", "o", "u", "t", " ", "o", "f", " ", "m",
                    "e", "m", "o", "r", "y">>],
      [kind |-> "http", code |-> 500,
       reason |-> <<"I", "n", "t", "e", "r", "n", "a", "l", " ", "S", "e", "r", "v",
                    "e", "r", " ", "E", "r", "r", "o", "r">>,
       detail |-> <<>>],
      [kind |-> "http", code |-> 404,
       reason |-> <<"N", "o", "t", " ", "F", "o", "u", "n", "d">>,
       detail |-> <<"n", "o", " ", "r", "o", "u", "t", "e">>] }

TransportErrors ==
    { [kind |-> "transport",
       exc |-> Exc("URLError",
                   <<"<", "u", "r", "l", "o", "p", "e", "n", " ", "e", "r", "r", "o",
                     "r", " ", "t", "i", "m", "e", "d", " ", "o", "u", "t", ">">>)],
      [kind |-> "transport",
       exc |-> Exc("URLError",
                   <<"<", "u", "r", "l", "o", "p", "e", "n", " ", "e", "r", "r", "o",
                     "r", " ", "[", "E", "r", "r", "n", "o", " ", "1", "1", "1", "]",
                     " ", "C", "o", "n", "n", "e", "c", "t", "i", "o", "n", " ", "r",
                     "e", "f", "u", "s", "e", "d", ">">>)],
      [kind |-> "transport",
       exc |-> Exc("TimeoutError", <<"t", "i", "m", "e", "d", " ", "o", "u", "t">>)] }

----------------------------------------------------------------------------
(* The invocation as a state machine.                                      *)

Init == /\ pc = "Received"
        /\ \E inv \in Invocations :
              /\ style = inv[1]
              /\ payload = inv[2]
              /\ event = MakeEvent(inv[1], inv[2])
        /\ user_message = PNone
        /\ conversation_history = PNone
        /\ prompt = <<>>
        /\ assistant_response = PNone
        /\ outcome = [kind |-> "none"]
        /\ sent = <<>>
        /\ response = NoResponse
        /\ raised = NoException
        /\ log = <<>>

\* line 93: the handler is entered and logs the event
Start ==
    /\ pc = "Received"
    /\ pc' = "Parsing"
    /\ log' = Append(log, [level |-> "INFO", what |-> "event", event |-> event])
    /\ UNCHANGED <<payload, style, event, user_message, conversation_history,
                   prompt, assistant_response, outcome, sent, response, raised>>

\* lines 98-107
Parse ==
    /\ pc = "Parsing"
    /\ LET r == ParseRequest(event)
       IN  IF r.ok
           THEN /\ pc' = "Parsed"
                /\ user_message' = r.v.user_message
                /\ conversation_history' = r.v.conversation_history
                /\ UNCHANGED <<response, log>>
           ELSE /\ pc' = "BadRequest"
                /\ log' = Append(log, [level |-> "ERROR", what |-> "Bad request format",
                                       exc |-> r.exc.type])
                /\ response' = BadRequestResponse
                /\ UNCHANGED <<user_message, conversation_history>>
    /\ UNCHANGED <<payload, style, event, prompt, assistant_response, outcome,
                   sent, raised>>

\* line 112: outside any try block, an exception leaves the handler
BuildPrompt ==
    /\ pc = "Parsed"
    /\ LET r == _build_prompt(conversation_history, user_message)
       IN  IF r.ok
           THEN /\ pc' = "Generating"
                /\ prompt' = r.v
                /\ UNCHANGED raised
           ELSE /\ pc' = "Crashed"
                /\ raised' = r.exc
                /\ UNCHANGED prompt
    /\ UNCHANGED <<payload, style, event, user_message, conversation_history,
                   assistant_response, outcome, sent, response, log>>

\* lines 117-120 with _call_llm, for one behaviour o of the endpoint
Call(o) ==
    /\ pc = "Generating"
    /\ outcome' = o
    /\ sent' = Append(sent, prompt)
    /\ LET r == _call_llm(prompt, o)
       IN  /\ log' = log \o CallLog(o, r)
           /\ IF r.ok
              THEN /\ pc' = "Generated"
                   /\ assistant_response' = r.v
                   /\ UNCHANGED response
              ELSE /\ pc' = "UpstreamError"
                   /\ response' = UpstreamErrorResponse(r.exc)
                   /\ UNCHANGED assistant_response
    /\ UNCHANGED <<payload, style, event, user_message, conversation_history,
                   prompt, raised>>

CallAnswered == \E o \in Answers : Call(o)
CallHttpError == \E o \in HttpErrors : Call(o)
CallTransportError == \E o \in TransportErrors : Call(o)

\* lines 125-136
Respond ==
    /\ pc = "Generated"
    /\ LET h == NewHistory(conversation_history, user_message, assistant_response)
       IN  IF h.ok
           THEN /\ pc' = "Responded"
                /\ response' = SuccessResponse(assistant_response, h.v)
                /\ UNCHANGED raised
           ELSE /\ pc' = "Crashed"
                /\ raised' = h.exc
                /\ UNCHANGED response
    /\ UNCHANGED <<payload, style, event, user_message, conversation_history,
                   prompt, assistant_response, outcome, sent, log>>

Next == \/ Start
        \/ Parse
        \/ BuildPrompt
        \/ CallAnswered
        \/ CallHttpError
        \/ CallTransportError
        \/ Respond

Spec == Init /\ [][Next]_vars

----------------------------------------------------------------------------
(* The client's view of the invocation, used to state the properties.      *)

Terminal == pc \in {"BadRequest", "UpstreamError", "Responded", "Crashed"}
Returned == response # NoResponse

MessageMissing == IsDict(payload) /\ ~HasKey(payload, KeyMessage)

InputMessage == Get(payload, KeyMessage)
InputHistory == IF HasKey(payload, KeyHistory) THEN Get(payload, KeyHistory)
                ELSE PList(<<>>)

HasRoleAndContent(m) == IsDict(m) /\ HasKey(m, KeyRole) /\ HasKey(m, KeyContent)
IsChatMessage(m) ==
    HasRoleAndContent(m) /\ IsStr(Get(m, KeyRole)) /\ IsStr(Get(m, KeyContent))

ValidInput ==
    /\ IsDict(payload)
    /\ HasKey(payload, KeyMessage)
    /\ IsStr(InputMessage)
    /\ IsList(InputHistory)
    /\ \A i \in 1..Len(InputHistory.xs) : IsChatMessage(InputHistory.xs[i])

WrongTypes ==
    /\ IsDict(payload)
    /\ \/ HasKey(payload, KeyMessage) /\ ~IsStr(InputMessage)
       \/ ~IsList(InputHistory)
       \/ /\ IsList(InputHistory)
          /\ \E i \in 1..Len(InputHistory.xs) : ~HasRoleAndContent(InputHistory.xs[i])

\* the endpoint answered 2xx with a JSON object that has generated_text
AnsweredWithText ==
    /\ outcome.kind = "ok"
    /\ outcome.json # Absent
    /\ IsDict(outcome.json)
    /\ HasKey(outcome.json, KeyGeneratedText)
GeneratedText == Get(outcome.json, KeyGeneratedText)

\* timeout, connection refused, or a 2xx answer that is malformed
TransportFailure ==
    \/ outcome.kind = "transport"
    \/ outcome.kind = "ok" /\ ~AnsweredWithText

UpstreamCodes == {o.code : o \in HttpErrors}

HasPrefix(s, pre) == Len(s) >= Len(pre) /\ SubSeq(s, 1, Len(pre)) = pre

\* body is the JSON text of an object {"success": false, "error": <str>}
IsFailureEnvelope(body) ==
    LET b == JsonLoads(body)
    IN  /\ b.ok
        /\ IsDict(b.v)
        /\ HasKey(b.v, <<"s", "u", "c", "c", "e", "s", "s">>)
        /\ Get(b.v, <<"s", "u", "c", "c", "e", "s", "s">>) = PBool(FALSE)
        /\ HasKey(b.v, <<"e", "r", "r", "o", "r">>)
        /\ IsStr(Get(b.v, <<"e", "r", "r", "o", "r">>))
EnvelopeError(body) == Get(JsonLoads(body).v, <<"e", "r", "r", "o", "r">>).s

\* the client decodes the success body and reads one field of it
BodyHas(body, key) ==
    LET b == JsonLoads(body) IN b.ok /\ IsDict(b.v) /\ HasKey(b.v, key)
BodyField(body, key) == Get(JsonLoads(body).v, key)

----------------------------------------------------------------------------
\* C1: for a valid input and an endpoint answer that carries a generated
\* text, the conversationHistory of the 200 response is the input history,
\* order and content kept, followed by exactly two entries: {role: "user",
\* content: message} and then {role: "assistant", content: generated text}.
C1_HistoryAppended ==
    (pc = "Responded" /\ ValidInput /\ AnsweredWithText) =>
        /\ BodyHas(response.body, KeyHistory)
        /\ BodyField(response.body, KeyHistory)
             = PList(InputHistory.xs
                     \o << Entry(PStr(RoleUser), InputMessage),
                           Entry(PStr(RoleAssistant), GeneratedText) >>)

C1_Witness ==
    /\ pc = "Responded"
    /\ ValidInput
    /\ AnsweredWithText
    /\ Len(InputHistory.xs) = 2
    /\ InputHistory.xs[1] # InputHistory.xs[2]
    /\ style = "encoded"

----------------------------------------------------------------------------
\* C2 as stated: when message is missing from the payload, the handler
\* returns status 400 with a body {"success": false, "error": "bad request"}
\* and attempts no downstream call.
C2_Original ==
    (MessageMissing /\ Terminal) =>
        /\ Returned
        /\ response.statusCode = 400
        /\ IsFailureEnvelope(response.body)
        /\ EnvelopeError(response.body) = BadRequestBody
        /\ sent = <<>>

\* C2 amended: when message is missing from the payload, the handler returns
\* status 400 whose body is the plain text "bad request" (no JSON object, no
\* success field), and no downstream call is attempted in that invocation.
C2_BadRequestPlainText ==
    (MessageMissing /\ pc \notin {"Received", "Parsing"}) =>
        /\ pc = "BadRequest"
        /\ response = [statusCode |-> 400, body |-> BadRequestBody]
        /\ ~JsonLoads(response.body).ok
        /\ sent = <<>>
        /\ outcome.kind = "none"

C2_Witness ==
    /\ pc = "BadRequest"
    /\ MessageMissing
    /\ HasKey(payload, KeyHistory)
    /\ style = "direct"

----------------------------------------------------------------------------
\* C3 as stated: when the endpoint answers with an HTTP error status, the
\* handler returns status 502 with success = false and an error string that
\* carries the upstream status code and the captured body detail, and no
\* conversationHistory.
C3_Original ==
    (outcome.kind = "http" /\ Terminal) =>
        /\ Returned
        /\ response.statusCode = 502
        /\ IsFailureEnvelope(response.body)
        /\ Contains(EnvelopeError(response.body), Dec(outcome.code))
        /\ Contains(EnvelopeError(response.body), outcome.detail)
        /\ ~BodyHas(response.body, KeyHistory)

\* C3 amended: when the endpoint answers with an HTTP error status, the
\* handler returns status 502 whose body is the plain text
\* "LLM backend error: HTTP Error <code>: <reason>": it carries the upstream
\* status code and reason phrase; the captured response body goes to the log
\* only; the response has no conversationHistory.
C3_HttpErrorPlainText ==
    outcome.kind = "http" =>
        /\ pc = "UpstreamError"
        /\ response.statusCode = 502
        /\ response.body = BackendErrorPrefix
                           \o <<"H", "T", "T", "P", " ", "E", "r", "r", "o", "r", " ">>
                           \o Dec(outcome.code) \o <<":", " ">> \o outcome.reason
        /\ Contains(response.body, Dec(outcome.code))
        /\ ~JsonLoads(response.body).ok
        /\ log[Len(log)] = [level |-> "ERROR", what |-> "LLM_API HTTPError",
                            code |-> outcome.code, err_detail |-> outcome.detail]

C3_Witness ==
    /\ pc = "UpstreamError"
    /\ outcome.kind = "http"
    /\ outcome.code = 500
    /\ outcome.detail # <<>>
    /\ ~Contains(response.body, outcome.detail)

----------------------------------------------------------------------------
\* C4 as stated: on a transport-level failure (timeout, connection refused,
\* malformed answer) the handler returns the same 502 response with
\* success = false as for an HTTP error, with no upstream status code in the
\* error, and never a 200 response.
C4_Original ==
    (TransportFailure /\ Terminal) =>
        /\ Returned
        /\ response.statusCode = 502
        /\ IsFailureEnvelope(response.body)
        /\ \A c \in UpstreamCodes : ~Contains(EnvelopeError(response.body), Dec(c))

\* C4 amended: on a transport-level failure the handler returns status 502
\* whose body is the plain text "LLM backend error: <str(e)>" (no JSON
\* object, no success field), the same shape as for an HTTP error, with no
\* "HTTP Error" part and no upstream status code in it, and never a 200.
C4_TransportErrorPlainText ==
    TransportFailure =>
        /\ pc = "UpstreamError"
        /\ response.statusCode = 502
        /\ HasPrefix(response.body, BackendErrorPrefix)
        /\ Len(response.body) > Len(BackendErrorPrefix)
        /\ ~JsonLoads(response.body).ok
        /\ ~Contains(response.body, <<"H", "T", "T", "P">>)
        /\ \A c \in UpstreamCodes : ~Contains(response.body, Dec(c))

C4_Witness ==
    /\ pc = "UpstreamError"
    /\ outcome.kind = "ok"
    /\ outcome.json # Absent
    /\ IsDict(outcome.json)
    /\ ~HasKey(outcome.json, KeyGeneratedText)

----------------------------------------------------------------------------
\* C5: for every payload whose types are wrong (message not a string,
\* conversationHistory not a sequence, a history element that is no object
\* with role and content) the invocation ends in BadRequest: status 400, no
\* downstream call, and no exception escapes the handler.
C5_WrongTypesRejected ==
    (WrongTypes /\ Terminal) =>
        /\ pc = "BadRequest"
        /\ Returned
        /\ response.statusCode = 400
        /\ sent = <<>>
        /\ raised = NoException

----------------------------------------------------------------------------
\* C6: every response the handler returns (200, 400 and 502 alike) carries
\* the fixed set of headers.
C6_HeadersOnEveryResponse ==
    Returned => "headers" \in DOMAIN response

----------------------------------------------------------------------------
\* C7 as stated: on success the response has status 200 and a JSON body with
\* success = true and response = the generated text unchanged; on every
\* failure the body is the JSON text of {"success": false, "error": <str>}.
C7_Original ==
    /\ pc = "Responded" =>
          /\ response.statusCode = 200
          /\ BodyHas(response.body, <<"s", "u", "c", "c", "e", "s", "s">>)
          /\ BodyField(response.body, <<"s", "u", "c", "c", "e", "s", "s">>) = PBool(TRUE)
          /\ BodyHas(response.body, <<"r", "e", "s", "p", "o", "n", "s", "e">>)
          /\ BodyField(response.body, <<"r", "e", "s", "p", "o", "n", "s", "e">>)
               = GeneratedText
    /\ pc \in {"BadRequest", "UpstreamError"} => IsFailureEnvelope(response.body)

\* C7 amended: on success the response has status 200 and a JSON-encoded body
\* object with exactly the fields assistantResponse, equal unchanged to the
\* generated_text of the endpoint, and conversationHistory (no success
\* field); on every failure the body is a plain text that is no JSON:
\* "bad request" (400) or "LLM backend error: <detail>" (502).
C7_BodyShapes ==
    /\ pc = "Responded" =>
          /\ response.statusCode = 200
          /\ AnsweredWithText
          /\ BodyHas(response.body, KeyAssistantResponse)
          /\ BodyField(response.body, KeyAssistantResponse) = GeneratedText
          /\ BodyHas(response.body, KeyHistory)
          /\ Len(JsonLoads(response.body).v.kv) = 2
    /\ pc \in {"BadRequest", "UpstreamError"} =>
          /\ ~JsonLoads(response.body).ok
          /\ \/ response.statusCode = 400 /\ response.body = BadRequestBody
             \/ response.statusCode = 502 /\ HasPrefix(response.body, BackendErrorPrefix)

C7_Witness ==
    /\ pc = "Responded"
    /\ IsStr(GeneratedText)
    /\ Contains(GeneratedText.s, <<"\"", "\n">>)

----------------------------------------------------------------------------
\* the handler applied to an event, for one behaviour o of the endpoint
\* (o.kind = "none": the call is still to be made)
RunHandler(ev, o) ==
    LET parsed == ParseRequest(ev)
    IN  IF ~parsed.ok
        THEN [pc |-> "BadRequest", prompt |-> <<>>, sent |-> <<>>,
              response |-> BadRequestResponse, raised |-> NoException]
        ELSE
        LET h == parsed.v.conversation_history
            m == parsed.v.user_message
            p == _build_prompt(h, m)
        IN  IF ~p.ok
            THEN [pc |-> "Crashed", prompt |-> <<>>, sent |-> <<>>,
                  response |-> NoResponse, raised |-> p.exc]
            ELSE IF o.kind = "none"
            THEN [pc |-> "Generating", prompt |-> p.v, sent |-> <<>>,
                  response |-> NoResponse, raised |-> NoException]
            ELSE
            LET r == _call_llm(p.v, o)
            IN  IF ~r.ok
                THEN [pc |-> "UpstreamError", prompt |-> p.v, sent |-> <<p.v>>,
                      response |-> UpstreamErrorResponse(r.exc),
                      raised |-> NoException]
                ELSE
                LET n == NewHistory(h, m, r.v)
                IN  IF ~n.ok
                    THEN [pc |-> "Crashed", prompt |-> p.v, sent |-> <<p.v>>,
                          response |-> NoResponse, raised |-> n.exc]
                    ELSE [pc |-> "Responded", prompt |-> p.v, sent |-> <<p.v>>,
                          response |-> SuccessResponse(r.v, n.v),
                          raised |-> NoException]

\* C8: invoking the handler with an event whose body is the JSON text of a
\* payload P = {message, conversationHistory?} gives the same prompt sent
\* downstream and the same response as invoking it with P as the event, for
\* every behaviour of the endpoint; a body that is no parseable JSON gives
\* status 400.
C8_StylesEquivalent ==
    /\ ( /\ style = "encoded"
         /\ IsDict(payload)
         /\ HasKey(payload, KeyMessage)
         /\ pc \in {"Generating", "BadRequest", "UpstreamError", "Responded", "Crashed"} )
       => [pc |-> pc, prompt |-> prompt, sent |-> sent, response |-> response,
           raised |-> raised] = RunHandler(payload, outcome)
    /\ ( /\ style = "nested"
         /\ IsStr(payload)
         /\ ~JsonLoads(payload.s).ok
         /\ pc \notin {"Received", "Parsing"} )
       => (pc = "BadRequest" /\ response.statusCode = 400 /\ sent = <<>>)

C8_Witness ==
    /\ style = "encoded"
    /\ pc = "Responded"
    /\ ValidInput
    /\ HasKey(payload, KeyHistory)
    /\ Len(InputHistory.xs) = 2
    /\ Contains(InputMessage.s, <<"\"", "\\", "\n">>)

----------------------------------------------------------------------------
\* C9: every invocation follows Received -> Parsing -> BadRequest | Parsed ->
\* Generating -> UpstreamError | Generated -> Responded: at most one
\* downstream call, made only after parsing succeeded, a 200 only after that
\* call succeeded, and the invocation ends in one of the three terminal
\* states (with a response).
C9_StateMachine ==
    /\ pc \in {"Received", "Parsing", "BadRequest", "Parsed", "Generating",
               "UpstreamError", "Generated", "Responded"}
    /\ raised = NoException
    /\ Len(sent) <= 1
    /\ sent # <<>> => pc \in {"UpstreamError", "Generated", "Responded"}
    /\ pc \in {"BadRequest", "UpstreamError", "Responded"} <=> Returned
    /\ (Returned /\ response.statusCode = 200) =>
          (pc = "Responded" /\ Len(sent) = 1 /\ outcome.kind = "ok")

----------------------------------------------------------------------------
\* what C10 describes, written out as one concatenation
RECURSIVE LabeledLines(_)
LabeledLines(xs) ==
    IF xs = <<>> THEN <<>>
    ELSE PyFormat(Get(Head(xs), KeyRole)) \o <<":", " ">>
         \o PyFormat(Get(Head(xs), KeyContent)) \o <<"\n">>
         \o LabeledLines(Tail(xs))

LabeledPrompt(header, history, latest) ==
    header \o <<"\n">> \o LabeledLines(history.xs)
    \o <<"u", "s", "e", "r", ":", " ">> \o PyFormat(latest) \o <<"\n">>
    \o <<"a", "s", "s", "i", "s", "t", "a", "n", "t", ":", " ">>

PromptBuilt == pc \in {"Generating", "Generated", "UpstreamError", "Responded"}

\* C10 as stated: the prompt is the prefix line "## Conversation History",
\* one line "{role}: {content}" per history entry in input order,
\* "user: {latestMessage}" and a final "assistant: " with no newline after,
\* joined by single newlines.
C10_Original ==
    (PromptBuilt /\ IsList(conversation_history)) =>
        prompt = LabeledPrompt(<<"#", "#", " ", "C", "o", "n", "v", "e", "r", "s", "a",
                                 "t", "i", "o", "n", " ", "H", "i", "s", "t", "o", "r",
                                 "y">>,
                               conversation_history, user_message)

\* C10 amended: the same, with the prefix line the source writes: "## "
\* followed by the four characters U+4F1A U+8A71 U+5C65 U+6B74 (Japanese for
\* "conversation history"), not the English words.
C10_LabeledPrompt ==
    (PromptBuilt /\ IsList(conversation_history)) =>
        /\ prompt = LabeledPrompt(<<"#", "#", " ", "U4F1A", "U8A71", "U5C65", "U6B74">>,
                                  conversation_history, user_message)
        /\ prompt[Len(prompt)] = " "
        /\ sent # <<>> => sent = <<prompt>>

C10_Witness ==
    /\ pc = "Generating"
    /\ IsList(conversation_history)
    /\ Len(conversation_history.xs) = 2
    /\ conversation_history.xs[1] # conversation_history.xs[2]
    /\ IsStr(user_message)
    /\ Contains(prompt, <<"a", "s", "s", "i", "s", "t", "a", "n", "t", ":", " ", "a">>)
=============================================================================
